---- MODULE Spec2Model ----
(***************************************************************************)
(* Model of the programs of the repository:                                *)
(*   "Pinnacle labs/quiz_app.py"  - the fixed-list quiz                     *)
(*   "Pinnacle labs/q/q.py"       - the database-backed quiz (student and  *)
(*                                  teacher panels over MongoDB)           *)
(*   "Pinnacle labs/remainder.py" - the calendar with per-user reminders   *)
(* All are Streamlit scripts: every widget event re-executes the script   *)
(* from the top against the browser session's st.session_state, so one     *)
(* action of the model is one script run started by one widget event.      *)
(***************************************************************************)
EXTENDS Integers, Sequences, FiniteSets, TLC

\* ------------------------------------------------------------------ bounds
MaxAttempts == 1      \* documents one browser session may add to db.attempts
MaxFail == 1          \* storage failures of db.attempts.insert_one
MaxTeacherOps == 1    \* teacher-panel writes to db.questions
MaxReminders == 2     \* reminders ever inserted into the reminders collection
MaxSignups == 2       \* user documents that sign-ups may add to a users collection
MaxYears == 1         \* years the calendar is paged away from the year it starts in

\* ------------------------------------------------------------ quiz_app.py
QUESTIONS ==
  << [question |-> "Which keyword is used to define a function in Python?",
      options |-> <<"func", "def", "function", "lambda">>,
      answer |-> "def", marks |-> 1],
     [question |-> "Which data type is immutable?",
      options |-> <<"list", "dict", "set", "tuple">>,
      answer |-> "tuple", marks |-> 1] >>

\* Python's None as the value of st.radio(..., index=None)
NoChoice == "None"

Range(seq) == {seq[i] : i \in 1..Len(seq)}

VARIABLES
  app,        \* which script streamlit runs: "quiz_app", "q" or "remainder"
  \* quiz_app.py: st.session_state of the browser session
  current, score, finished,
  choice,     \* value of the radio widget of quiz_app.py
  given,      \* history: the choices accepted since the session state was (re)set
  flast,      \* history: the widget event of the last run of quiz_app.py and the
              \* session state, radio value and Len(given) that run started from
  \* q.py: the MongoDB collections
  users, questions, attempts, nextId,
  ss,         \* q.py: per browser session, st.session_state and widget state
  sess,       \* history: per browser, the quiz session in progress
  fin,        \* history: per browser, the last session that took the completion branch
  asked,      \* history: per browser, for each record of st.session_state.answers
              \* the question it answers and the user logged in when it was appended
  fails, tops, \* counters bounding storage failures and teacher writes
  signup,     \* per browser session, the create_user call of its Signup run
  created,    \* history: per username, the create_user calls that reported success
  \* remainder.py
  rusers,     \* the users collection of remainder.py
  reminders,  \* the reminders collection, in insertion order
  nextRid,    \* the number of the next _id of a reminder
  rs,         \* per browser session, st.session_state and what the last run showed
  cal,        \* per browser session, st.session_state.year and .month
  ran         \* history: the browser session whose run was the last step

vars == <<app, current, score, finished, choice, given, flast,
          users, questions, attempts, nextId, ss, sess, fin, asked, fails, tops,
          signup, created, rusers, reminders, nextRid, rs, cal, ran>>

fvars == <<current, score, finished, choice, given, flast>>
qvars == <<users, questions, attempts, nextId, ss, sess, fin, asked, fails, tops,
          signup, created>>
rvars == <<rusers, reminders, nextRid, rs, cal, ran>>

\* lines 19-25: session state init
FixedInit ==
  /\ current = 0
  /\ score = 0
  /\ finished = FALSE
  /\ choice = NoChoice
  /\ given = <<>>
  /\ flast = [ev |-> "start",
              from |-> [current |-> 0, score |-> 0, finished |-> FALSE,
                        choice |-> NoChoice, n |-> 0]]

\* the run started by widget event ev, and what it started from
FRun(ev) ==
  flast' = [ev |-> ev,
            from |-> [current |-> current, score |-> score, finished |-> finished,
                      choice |-> choice, n |-> Len(given)]]

\* The radio of line 44 has no key: its identity is its label and options, so
\* its value survives a rerun only when the same options are rendered again.
FRadio(wasShown, oldOpts, newOpts) ==
  IF wasShown /\ oldOpts = newOpts THEN choice ELSE NoChoice

\* mutant of FRestart: the points of the previous run are kept
FRestartKeepsScore ==
  /\ app = "quiz_app"
  /\ FRun("restart")
  /\ current' = 0
  /\ score' = score
  /\ finished' = FALSE
  /\ given' = <<>>
  /\ choice' = FRadio(~finished, QUESTIONS[current + 1].options, QUESTIONS[1].options)
  /\ UNCHANGED <<app, qvars, rvars>>

\* lines 29-33 (then the script goes on to render question 0)
FRestart ==
  /\ app = "quiz_app"
  /\ FRun("restart")
  /\ current' = 0
  /\ score' = 0
  /\ finished' = FALSE
  /\ given' = <<>>
  /\ choice' = FRadio(~finished, QUESTIONS[current + 1].options, QUESTIONS[1].options)
  /\ UNCHANGED <<app, qvars, rvars>>

\* mutant of FShown: the question is rendered whether or not the quiz is finished
FShownAlways == TRUE

\* lines 36, 39: the question, its radio and the Submit answer button are
\* rendered only in the else branch of "if st.session_state.finished"
FShown == ~finished

\* line 44: the user picks an option of the question shown
FSelect(o) ==
  /\ app = "quiz_app"
  /\ FShown
  /\ o \in Range(QUESTIONS[current + 1].options)
  /\ choice' = o
  /\ FRun("select")
  /\ UNCHANGED <<app, current, score, finished, given, qvars, rvars>>

\* line 50-51: marks added for a choice equal to the answer
FAward(q, c) == IF c = q.answer THEN q.marks ELSE 0

\* line 56: is there a next question
FHasNext(cur) == cur + 1 < Len(QUESTIONS)

\* mutant of FNoAnswer: a submission without a selection is taken as an answer
FNoAnswerNever(c) == FALSE

\* line 47: "if choice is None"
FNoAnswer(c) == c = NoChoice

\* lines 46-61
FSubmit ==
  /\ app = "quiz_app"
  /\ FShown
  /\ FRun("submit")
  /\ LET q == QUESTIONS[current + 1] IN
     IF FNoAnswer(choice)
     THEN UNCHANGED <<current, score, finished, choice, given>>   \* lines 47-48
     ELSE /\ score' = score + FAward(q, choice)
          /\ given' = Append(given, choice)
          /\ IF FHasNext(current)
             THEN /\ current' = current + 1     \* lines 57-58, rerun renders the next question
                  /\ finished' = finished
                  /\ choice' = FRadio(TRUE, q.options, QUESTIONS[current + 2].options)
             ELSE /\ finished' = TRUE           \* lines 60-61, rerun renders the result
                  /\ current' = current
                  /\ choice' = NoChoice
  /\ UNCHANGED <<app, qvars, rvars>>


\* ------------------------------------------------------------------- q.py
Browsers == {"b1", "b2"}

\* line 18: default of the SALT environment variable
SALT == "CHANGE_THIS_SALT"

\* lines 53-54: sha256 of SALT + password, kept as the pair it is computed from
\* (no two of the passwords used here collide)
hash_password(password) == <<"sha256", SALT, password>>

\* str.upper() on the course codes typed here
Upper(c) == CASE c = "a" -> "A" [] c = "b" -> "B" [] OTHER -> c

\* str.strip() on the option texts typed here
Strip(s) == CASE s = " y" -> "y" [] s = "z " -> "z" [] s = " " -> "" [] OTHER -> s

RECURSIVE SumMarks(_)
\* line 388: sum(q["marks"] for q in questions)
SumMarks(qs) == IF qs = <<>> THEN 0 ELSE Head(qs).marks + SumMarks(Tail(qs))

\* lines 90-91: find() returns the matching documents in insertion order
get_questions(course) ==
  SelectSeq(questions, LAMBDA d : d.course_code = Upper(course))

\* users.find_one({"username": username}): the first match, or none
FindUser(username) ==
  LET hits == {i \in 1..Len(users) : users[i].username = username} IN
  IF hits = {} THEN <<>>
  ELSE <<users[CHOOSE i \in hits : \A j \in hits : i <= j]>>

NoUser == [username |-> "", role |-> "none"]

\* lines 71-76
authenticate(username, password) ==
  LET u == FindUser(username) IN
  IF u # <<>> /\ u[1].password_hash = hash_password(password)
  THEN [username |-> u[1].username, role |-> u[1].role]
  ELSE NoUser

\* lines 93-101 (the timestamp is not modelled)
AttemptDoc(username, course, sc, max_score, details) ==
  [username |-> username, course_code |-> Upper(course), score |-> sc,
   max_score |-> max_score, details |-> details]

\* mutant of save_attempt: one document is kept per user and course, a later
\* attempt replaces the earlier one
save_attempt_upsert(att, doc) ==
  Append(SelectSeq(att, LAMBDA d : ~(d.username = doc.username
                                      /\ d.course_code = doc.course_code)), doc)

\* mutant of save_attempt: the document is inserted twice
save_attempt_twice(att, doc) == Append(Append(att, doc), doc)

\* lines 93-101: insert_one appends one document to db.attempts
save_attempt(att, doc) == Append(att, doc)

\* the radio widget of line 369 when it was not rendered in the last run
NoRadio == [shown |-> FALSE, opts |-> <<>>, sel |-> ""]

\* st.session_state of a new browser session, before any run sets "index"
InitSS ==
  [user |-> NoUser, course |-> "", has_index |-> FALSE, index |-> 0, score |-> 0,
   answers |-> <<>>, radio |-> NoRadio, out |-> "login"]

\* lines 360-363
InitIndex(s) ==
  IF s.has_index THEN s
  ELSE [s EXCEPT !.has_index = TRUE, !.index = 0, !.score = 0, !.answers = <<>>]

\* line 369: st.radio("Options", q["options"]) has no key, so the widget is the
\* same one only while label and options are the same; a new widget shows its
\* first option
Radio(old, opts) ==
  IF old.shown /\ old.opts = opts THEN old
  ELSE [shown |-> TRUE, opts |-> opts, sel |-> opts[1]]

\* line 365: questions[st.session_state.index] raises IndexError out of range
InRange(index, qs) == index < Len(qs)

\* mutant of Render: the session variables are initialised before the list of
\* questions is tested for emptiness
RenderInitAlways(s) ==
  LET qs == get_questions(s.course) IN
  IF s.course = "" THEN [s EXCEPT !.radio = NoRadio, !.out = "no_course"]
  ELSE LET s1 == InitIndex(s) IN
       IF qs = <<>> THEN [s1 EXCEPT !.radio = NoRadio, !.out = "no_questions"]
       ELSE IF ~InRange(s1.index, qs)
       THEN [s1 EXCEPT !.radio = NoRadio, !.out = "IndexError"]
       ELSE [s1 EXCEPT !.radio = Radio(s.radio, qs[s1.index + 1].options),
                       !.out = "question"]

\* lines 350-369: the student panel up to the Submit button, no button pressed
Render(s) ==
  LET qs == get_questions(s.course) IN
  IF s.course = "" THEN [s EXCEPT !.radio = NoRadio, !.out = "no_course"]
  ELSE IF qs = <<>> THEN [s EXCEPT !.radio = NoRadio, !.out = "no_questions"]
  ELSE LET s1 == InitIndex(s) IN
       IF ~InRange(s1.index, qs)
       THEN [s1 EXCEPT !.radio = NoRadio, !.out = "IndexError"]
       ELSE [s1 EXCEPT !.radio = Radio(s.radio, qs[s1.index + 1].options),
                       !.out = "question"]

\* lines 376-381
AnswerRecord(q, sel) ==
  [question |-> q.question, selected |-> sel, correct |-> q.answer,
   is_correct |-> (sel = q.answer)]

\* mutant of Score: a choice that is not an option of the question is dropped
ScoreOptionsOnly(s, q, sel) ==
  IF sel \in Range(q.options)
  THEN [s EXCEPT !.score = IF sel = q.answer THEN @ + q.marks ELSE @,
                 !.answers = Append(@, AnswerRecord(q, sel))]
  ELSE s

\* mutant of Score: a wrong answer costs a point
ScoreNegativeMarking(s, q, sel) ==
  [s EXCEPT !.score = IF sel = q.answer THEN @ + q.marks ELSE @ - 1,
            !.answers = Append(@, AnswerRecord(q, sel))]

\* lines 372-381
Score(s, q, sel) ==
  [s EXCEPT !.score = IF sel = q.answer THEN @ + q.marks ELSE @,
            !.answers = Append(@, AnswerRecord(q, sel))]

\* mutant of HasNext: the comparison is off by one
HasNextOffByOne(index, qs) == index + 2 < Len(qs)

\* line 383
HasNext(index, qs) == index + 1 < Len(qs)

\* lines 392-395
Reset(s) == [s EXCEPT !.index = 0, !.score = 0, !.answers = <<>>]

\* ------------------------------------------------- history of quiz sessions
NoSess == [active |-> FALSE, course |-> "", snap |-> <<>>, given |-> <<>>,
           failed |-> FALSE]
NoFin == [count |-> 0, saved |-> 0, snap |-> <<>>, given |-> <<>>, score |-> 0,
          pos |-> 0, n |-> 0, asked |-> <<>>]

NewSess(course, qs) ==
  [active |-> TRUE, course |-> Upper(course), snap |-> qs, given |-> <<>>,
   failed |-> FALSE]

\* A session begins when the panel presents a non-empty question set and no
\* session of that course is in progress in this browser.
Begin(g, s) ==
  IF s.out \in {"question", "IndexError"}
     /\ (~g.active \/ g.course # Upper(s.course))
  THEN NewSess(s.course, get_questions(s.course))
  ELSE g

\* ---------------------------------------------------- q.py: student events
IsStudent(b) == ss[b].user.role = "student"
IsTeacher(b) == ss[b].user.role = "teacher"

\* lines 185-213: the run after a login or logout; a widget that a run does not
\* render loses its state, so the course input and the radio start afresh
AfterLogin(s, u) ==
  IF u.role = "student"
  THEN Render([s EXCEPT !.user = u, !.course = "", !.radio = NoRadio])
  ELSE [s EXCEPT !.user = u, !.course = "", !.radio = NoRadio, !.out = "teacher"]

\* lines 203-210
Login(b, username, password) ==
  /\ app = "q"
  /\ ss[b].user = NoUser
  /\ LET u == authenticate(username, password) IN
     \* line 210: wrong credentials leave the session state as it is
     ss' = [ss EXCEPT ![b] = IF u # NoUser THEN AfterLogin(@, u) ELSE @]
  /\ UNCHANGED <<app, fvars, rvars, signup, created, users, questions, attempts, nextId, sess, fin, asked, fails, tops>>

\* lines 187-191, then st.stop() of line 213
Logout(b) ==
  /\ app = "q"
  /\ ss[b].user # NoUser
  /\ ss' = [ss EXCEPT ![b] = [@ EXCEPT !.user = NoUser, !.course = "",
                                       !.radio = NoRadio, !.out = "login"]]
  /\ UNCHANGED <<app, fvars, rvars, signup, created, users, questions, attempts, nextId, sess, fin, asked, fails, tops>>

\* line 352: the student types a course code, the script reruns
SetCourse(b, c) ==
  /\ app = "q"
  /\ IsStudent(b)
  /\ c # ss[b].course
  /\ LET s == Render([ss[b] EXCEPT !.course = c]) IN
     /\ ss' = [ss EXCEPT ![b] = s]
     /\ sess' = [sess EXCEPT ![b] = Begin(@, s)]
  /\ UNCHANGED <<app, fvars, rvars, signup, created, users, questions, attempts, nextId, fin, asked, fails, tops>>

\* line 369: the student picks another option, the script reruns
Select(b, o) ==
  /\ app = "q"
  /\ IsStudent(b)
  /\ ss[b].radio.shown
  /\ o \in Range(ss[b].radio.opts)
  /\ o # ss[b].radio.sel
  /\ LET s == Render([ss[b] EXCEPT !.radio.sel = o]) IN
     /\ ss' = [ss EXCEPT ![b] = s]
     /\ sess' = [sess EXCEPT ![b] = Begin(@, s)]
  /\ UNCHANGED <<app, fvars, rvars, signup, created, users, questions, attempts, nextId, fin, asked, fails, tops>>

\* lines 371-395: the student presses Submit Answer (the button of the last
\* run), the script reruns with the button pressed; ok is whether
\* db.attempts.insert_one succeeds
Submit(b, ok) ==
  /\ app = "q"
  /\ IsStudent(b)
  /\ ss[b].radio.shown
  /\ LET s0 == Render(ss[b])
         g0 == Begin(sess[b], s0)
         qs == get_questions(ss[b].course)
     IN
     IF s0.out # "question"
     THEN \* the run does not reach the button
          /\ ss' = [ss EXCEPT ![b] = s0]
          /\ sess' = [sess EXCEPT ![b] = g0]
          /\ UNCHANGED <<attempts, fin, asked, fails>>
     ELSE LET q == qs[s0.index + 1]
              sel == s0.radio.sel
              s1 == Score(s0, q, sel)
              g1 == [g0 EXCEPT !.given = Append(@, sel)]
              a1 == Append(asked[b], [q |-> q, user |-> s0.user.username])
          IN
          IF HasNext(s1.index, qs)
          THEN \* lines 384-385
               /\ ss' = [ss EXCEPT ![b] = Render([s1 EXCEPT !.index = @ + 1])]
               /\ sess' = [sess EXCEPT ![b] = g1]
               /\ asked' = [asked EXCEPT ![b] = a1]
               /\ UNCHANGED <<attempts, fin, fails>>
          ELSE \* lines 387-395
               LET doc == AttemptDoc(s1.user.username, s1.course, s1.score,
                                     SumMarks(qs), s1.answers)
                   f1 == [fin[b] EXCEPT !.count = @ + 1, !.snap = g1.snap,
                                        !.given = g1.given, !.score = s1.score,
                                        !.pos = s1.index, !.n = Len(qs),
                                        !.asked = a1]
               IN
               /\ fin[b].saved < MaxAttempts
               /\ IF ok
                  THEN /\ attempts' = save_attempt(attempts, doc)
                       /\ ss' = [ss EXCEPT ![b] = [Reset(s1) EXCEPT !.out = "finished"]]
                       /\ sess' = [sess EXCEPT ![b] = NewSess(s1.course, qs)]
                       /\ fin' = [fin EXCEPT ![b] = [f1 EXCEPT !.saved = @ + 1]]
                       /\ asked' = [asked EXCEPT ![b] = <<>>]
                       /\ fails' = fails
                  ELSE \* insert_one raises: the run ends at line 387
                       /\ fails < MaxFail
                       /\ fails' = fails + 1
                       /\ attempts' = attempts
                       /\ ss' = [ss EXCEPT ![b] = [s1 EXCEPT !.out = "StorageError"]]
                       /\ sess' = [sess EXCEPT ![b] = [g1 EXCEPT !.failed = TRUE]]
                       /\ asked' = [asked EXCEPT ![b] = a1]
                       /\ fin' = [fin EXCEPT ![b] = f1]
  /\ UNCHANGED <<app, fvars, rvars, signup, created, users, questions, nextId, tops>>

\* ---------------------------------------------------- q.py: teacher events
\* lines 231, 280: [o.strip() for o in raw.split(",") if o.strip()], raw given
\* as the pieces between its commas
ParseOptions(raw) ==
  SelectSeq([i \in 1..Len(raw) |-> Strip(raw[i])], LAMBDA o : o # "")

QuestionDoc(id, f, opts) ==
  [id |-> id, course_code |-> Upper(f.course), question |-> f.question,
   options |-> opts, answer |-> f.answer, marks |-> f.marks]

\* lines 81-88
add_question(id, f, opts) == Append(questions, QuestionDoc(id, f, opts))

\* lines 107-113
delete_question(i) ==
  [j \in 1..(Len(questions) - 1) |-> IF j < i THEN questions[j] ELSE questions[j + 1]]

\* lines 116-129
update_question(i, f, opts) ==
  [questions EXCEPT ![i] = QuestionDoc(@.id, f, opts)]

\* mutant of AddAccepted: the test of line 234 is missing
AddAcceptedAnyAnswer(f, opts) ==
  ~(f.course = "" \/ f.question = "" \/ opts = <<>> \/ f.answer = "")

\* lines 232-235
AddAccepted(f, opts) ==
  /\ ~(f.course = "" \/ f.question = "" \/ opts = <<>> \/ f.answer = "")
  /\ f.answer \in Range(opts)

\* line 281
SaveAccepted(f, opts) == f.answer \in Range(opts)

\* lines 230-238
TeacherAdd(b, f) ==
  /\ app = "q"
  /\ IsTeacher(b)
  /\ tops < MaxTeacherOps
  /\ LET opts == ParseOptions(f.options_raw) IN
     IF AddAccepted(f, opts)
     THEN /\ questions' = add_question(nextId, f, opts)
          /\ nextId' = nextId + 1
          /\ tops' = tops + 1
     ELSE UNCHANGED <<questions, nextId, tops>>
  /\ UNCHANGED <<app, fvars, rvars, signup, created, users, attempts, ss, sess, fin, asked, fails>>

\* lines 243-244: the question is listed under a non-empty course code
Listed(i) == i \in 1..Len(questions) /\ questions[i].course_code # ""

\* lines 264-269
TeacherDelete(b, i) ==
  /\ app = "q"
  /\ IsTeacher(b)
  /\ tops < MaxTeacherOps
  /\ Listed(i)
  /\ questions' = delete_question(i)
  /\ tops' = tops + 1
  /\ UNCHANGED <<app, fvars, rvars, signup, created, users, attempts, nextId, ss, sess, fin, asked, fails>>

\* lines 256-262, 272-290: Edit fills the form, Save Changes writes it
TeacherSave(b, i, f) ==
  /\ app = "q"
  /\ IsTeacher(b)
  /\ tops < MaxTeacherOps
  /\ Listed(i)
  /\ LET opts == ParseOptions(f.options_raw) IN
     IF SaveAccepted(f, opts)
     THEN /\ questions' = update_question(i, f, opts)
          /\ tops' = tops + 1
     ELSE UNCHANGED <<questions, tops>>
  /\ UNCHANGED <<app, fvars, rvars, signup, created, users, attempts, nextId, ss, sess, fin, asked, fails>>

\* ------------------------------------------------------------ remainder.py
\* the users collection when the run begins
RemUsers ==
  << [id |-> "u1", username |-> "ann", password |-> <<"hash", "pa">>],
     [id |-> "u2", username |-> "bob", password |-> <<"hash", "pb">>] >>

\* lines 38-45: the stored hash matches exactly the password it was made from
check_password_hash(hashed, password) == hashed = <<"hash", password>>

\* username.strip().lower() on the names typed here
NormUser(u) ==
  CASE u = "Ann " -> "ann" [] u = "Bob" -> "bob" [] u = "Cat " -> "cat"
    [] u = " " -> "" [] OTHER -> u

\* title.strip() on the titles typed here
StripTitle(s) == CASE s = "a " -> "a" [] s = " " -> "" [] OTHER -> s

NoRUser == [id |-> "", username |-> ""]
NoDate == "None"
\* st.session_state.edit_id = None (the _id of a reminder is a number here, from 1)
NoEdit == 0

\* lines 90-97
authenticate_user(username, password) ==
  LET hits == {i \in 1..Len(rusers) : rusers[i].username = NormUser(username)} IN
  IF hits = {} THEN NoRUser
  ELSE LET u == rusers[CHOOSE i \in hits : \A j \in hits : i <= j] IN
       IF check_password_hash(u.password, password)
       THEN [id |-> u.id, username |-> u.username]     \* line 186
       ELSE NoRUser

\* lines 131-136: coll.find({"date": key, "user_id": user_id}); only the title
\* of a reminder is modelled, so the sort by time keeps the insertion order
reminders_for_date(coll, user_id, date) ==
  SelectSeq(coll, LAMBDA d : d.date = date /\ d.user_id = user_id)

\* line 248: coll.count_documents({"date": key, "user_id": user_id}) > 0
HasReminders(coll, user_id, date) ==
  \E i \in 1..Len(coll) : coll[i].date = date /\ coll[i].user_id = user_id

\* lines 138-149
add_reminder(coll, id, user_id, date, title) ==
  Append(coll, [id |-> id, user_id |-> user_id, date |-> date, title |-> title])

\* mutant of update_reminder: the filter is the _id alone
update_reminder_by_id(coll, user_id, reminder_id, title) ==
  [i \in 1..Len(coll) |->
     IF coll[i].id = reminder_id THEN [coll[i] EXCEPT !.title = title] ELSE coll[i]]

\* lines 151-153: update_one({"_id": ..., "user_id": user_id}, {"$set": ...})
update_reminder(coll, user_id, reminder_id, title) ==
  [i \in 1..Len(coll) |->
     IF coll[i].id = reminder_id /\ coll[i].user_id = user_id
     THEN [coll[i] EXCEPT !.title = title] ELSE coll[i]]

\* lines 155-157: delete_one({"_id": ..., "user_id": user_id})
delete_reminder(coll, user_id, reminder_id) ==
  SelectSeq(coll, LAMBDA d : ~(d.id = reminder_id /\ d.user_id = user_id))

RDates == {"d1", "d2"}

\* st.session_state of a new browser session (lines 100-109) and the empty page
InitRS ==
  [user |-> NoRUser, selected_date |-> NoDate, edit_id |-> NoEdit,
   listed |-> <<>>, marked |-> {}]

\* lines 163-323: what the run shows at its end: the login page, or the
\* calendar with its marks (lines 239-258) and the reminders of the selected
\* date (lines 263-285)
RShow(s, coll) ==
  IF s.user = NoRUser THEN [s EXCEPT !.listed = <<>>, !.marked = {}]
  ELSE [s EXCEPT
          !.marked = {d \in RDates : HasReminders(coll, s.user.id, d)},
          !.listed = IF s.selected_date = NoDate THEN <<>>
                     ELSE reminders_for_date(coll, s.user.id, s.selected_date)]

RLogged(b) == app = "remainder" /\ rs[b].user # NoRUser

\* lines 183-190
RLogin(b, username, password) ==
  /\ app = "remainder"
  /\ rs[b].user = NoRUser
  /\ LET u == authenticate_user(username, password) IN
     rs' = [rs EXCEPT ![b] = RShow([@ EXCEPT !.user = u], reminders)]
  /\ ran' = b
  /\ UNCHANGED <<app, fvars, qvars, rusers, cal, reminders, nextRid>>

\* lines 167-169, then the page of lines 174-207
RLogout(b) ==
  /\ RLogged(b)
  /\ rs' = [rs EXCEPT ![b] = RShow([@ EXCEPT !.user = NoRUser], reminders)]
  /\ ran' = b
  /\ UNCHANGED <<app, fvars, qvars, rusers, cal, reminders, nextRid>>

\* lines 254-256: a day of the calendar is pressed
PickDate(b, d) ==
  /\ RLogged(b)
  /\ rs' = [rs EXCEPT ![b] =
              RShow([@ EXCEPT !.selected_date = d, !.edit_id = NoEdit], reminders)]
  /\ ran' = b
  /\ UNCHANGED <<app, fvars, qvars, rusers, cal, reminders, nextRid>>

\* lines 266-271: the reminders whose Edit and Delete buttons the run renders
RItems(b) ==
  IF rs[b].selected_date = NoDate THEN <<>>
  ELSE reminders_for_date(reminders, rs[b].user.id, rs[b].selected_date)

\* lines 279-281
REdit(b, rid) ==
  /\ RLogged(b)
  /\ \E i \in 1..Len(RItems(b)) : RItems(b)[i].id = rid
  /\ rs' = [rs EXCEPT ![b] = RShow([@ EXCEPT !.edit_id = rid], reminders)]
  /\ ran' = b
  /\ UNCHANGED <<app, fvars, qvars, rusers, cal, reminders, nextRid>>

\* lines 282-284
RDelete(b, rid) ==
  /\ RLogged(b)
  /\ \E i \in 1..Len(RItems(b)) : RItems(b)[i].id = rid
  /\ reminders' = delete_reminder(reminders, rs[b].user.id, rid)
  /\ rs' = [rs EXCEPT ![b] = RShow(@, reminders')]
  /\ ran' = b
  /\ UNCHANGED <<app, fvars, qvars, rusers, cal, nextRid>>

\* lines 304-321: the form is submitted with a title
RSave(b, title) ==
  /\ RLogged(b)
  /\ rs[b].selected_date # NoDate
  /\ ran' = b
  /\ IF StripTitle(title) = ""
     THEN \* lines 310-311
          /\ rs' = [rs EXCEPT ![b] = RShow(@, reminders)]
          /\ UNCHANGED <<reminders, nextRid>>
     ELSE IF rs[b].edit_id # NoEdit
     THEN \* lines 313-317
          /\ reminders' = update_reminder(reminders, rs[b].user.id, rs[b].edit_id,
                                          StripTitle(title))
          /\ rs' = [rs EXCEPT ![b] = RShow([@ EXCEPT !.edit_id = NoEdit], reminders')]
          /\ nextRid' = nextRid
     ELSE \* lines 318-321
          /\ nextRid <= MaxReminders
          /\ reminders' = add_reminder(reminders, nextRid, rs[b].user.id,
                                       rs[b].selected_date, StripTitle(title))
          /\ nextRid' = nextRid + 1
          /\ rs' = [rs EXCEPT ![b] = RShow(@, reminders')]
  /\ UNCHANGED <<app, fvars, qvars, rusers, cal>>

\* what is typed into the login form of each browser session
RTyped(b) ==
  IF b = "b1" THEN {<<"Ann ", "pa">>, <<"Bob", "pb">>} ELSE {<<"bob", "pb">>, <<"bob", "pa">>}

Titles == {"a ", "b", " "}

\* lines 100-103: year and month of datetime.date.today() when the session starts
Today == [year |-> 2026, month |-> 11]

\* lines 112-119
prev_month(c) ==
  LET y == c.year
      m == c.month - 1
  IN IF m < 1 THEN [year |-> y - 1, month |-> 12] ELSE [year |-> y, month |-> m]

\* mutant of next_month: the wrap is taken one month early
next_month_early(c) ==
  LET y == c.year
      m == c.month + 1
  IN IF m >= 12 THEN [year |-> y + 1, month |-> 1] ELSE [year |-> y, month |-> m]

\* lines 121-128
next_month(c) ==
  LET y == c.year
      m == c.month + 1
  IN IF m > 12 THEN [year |-> y + 1, month |-> 1] ELSE [year |-> y, month |-> m]

\* lines 213-215: the Prev button, then the page is rendered for that month
PrevPressed(b) ==
  /\ RLogged(b)
  /\ prev_month(cal[b]).year >= Today.year - MaxYears
  /\ cal' = [cal EXCEPT ![b] = prev_month(@)]
  /\ rs' = [rs EXCEPT ![b] = RShow(@, reminders)]
  /\ ran' = b
  /\ UNCHANGED <<app, fvars, qvars, rusers, reminders, nextRid>>

\* lines 219-221: the Next button, then the page is rendered for that month
NextPressed(b) ==
  /\ RLogged(b)
  /\ next_month(cal[b]).year <= Today.year + MaxYears
  /\ cal' = [cal EXCEPT ![b] = next_month(@)]
  /\ rs' = [rs EXCEPT ![b] = RShow(@, reminders)]
  /\ ran' = b
  /\ UNCHANGED <<app, fvars, qvars, rusers, reminders, nextRid>>

RemInit ==
  /\ rusers = RemUsers
  /\ reminders = <<>>
  /\ nextRid = 1
  /\ rs = [b \in Browsers |-> InitRS]
  /\ ran = "none"

\* ------------------------------------------------------------ the programs
\* accounts and questions already in the database when the run begins
InitUsers ==
  << [username |-> "s1", password_hash |-> hash_password("p1"), role |-> "student"],
     [username |-> "t1", password_hash |-> hash_password("pt"), role |-> "teacher"],
     [username |-> "s2", password_hash |-> hash_password("p2"), role |-> "student"] >>

InitQuestions ==
  << [id |-> 1, course_code |-> "A", question |-> "qa1", options |-> <<"x", "y">>,
      answer |-> "x", marks |-> 1],
     [id |-> 2, course_code |-> "A", question |-> "qa2", options |-> <<"x", "y">>,
      answer |-> "y", marks |-> 2],
     [id |-> 3, course_code |-> "B", question |-> "qb1", options |-> <<"y", "z">>,
      answer |-> "z", marks |-> 1] >>

\* what the teacher types into the Add Question and Edit Question forms
Forms ==
  { [course |-> "b", question |-> "qb2", options_raw |-> <<" y", "z ", " ">>,
     answer |-> "y", marks |-> -1],
    [course |-> "A", question |-> "qa3", options_raw |-> <<"x", " y">>,
     answer |-> " y", marks |-> 1] }

\* what is typed into the login form of each browser: b1 is a student's
\* browser, b2 the teacher's
Typed(b) ==
  IF b = "b1" THEN {<<"s1", "p1">>, <<"s1", "pt">>} ELSE {<<"t1", "pt">>}

Courses == {"a", "B"}

\* no create_user call is in progress
NoCall == [pc |-> "idle", username |-> "", password |-> "", role |-> "", msg |-> ""]

\* the usernames that sign-ups may ask for, as they are stored
SignupNames == {"", "s1", "new", "ann", "cat"}

SignupInit ==
  /\ signup = [b \in Browsers |-> NoCall]
  /\ created = [n \in SignupNames |-> 0]

Init ==
  /\ app \in {"quiz_app", "q"}
  /\ FixedInit
  /\ users = InitUsers
  /\ questions = InitQuestions
  /\ attempts = <<>>
  /\ nextId = Len(InitQuestions) + 1
  /\ ss = [b \in Browsers |-> InitSS]
  /\ sess = [b \in Browsers |-> NoSess]
  /\ fin = [b \in Browsers |-> NoFin]
  /\ asked = [b \in Browsers |-> <<>>]
  /\ fails = 0
  /\ tops = 0
  /\ SignupInit
  /\ RemInit
  /\ cal = [b \in Browsers |-> Today]

Next ==
  \/ FRestart
  \/ \E o \in Range(QUESTIONS[1].options) \cup Range(QUESTIONS[2].options) : FSelect(o)
  \/ FSubmit
  \/ \E b \in Browsers : \E cr \in Typed(b) : Login(b, cr[1], cr[2])
  \/ \E b \in Browsers : Logout(b)
  \/ \E b \in Browsers : \E c \in Courses : SetCourse(b, c)
  \/ \E b \in Browsers : \E o \in {"x", "y", "z"} : Select(b, o)
  \/ \E b \in Browsers : \E ok \in BOOLEAN : Submit(b, ok)
  \/ \E b \in Browsers : \E f \in Forms : TeacherAdd(b, f)
  \/ \E b \in Browsers : \E i \in 1..Len(questions) : TeacherDelete(b, i)
  \/ \E b \in Browsers : \E i \in 1..Len(questions) : \E f \in Forms : TeacherSave(b, i, f)

Spec == Init /\ [][Next]_vars

\* ------------------------------------ q.py: the submit handler on any choice
\* line 369 hands the handler of lines 371-385 the value of the radio widget.
\* st.radio itself returns one of the options it was given, so under Spec the
\* choice is always an option; here the widget state may also hold a value
\* that is not an option (the desynchronised UI of the specification's edge
\* case), and the handler is run on it.
Outside == {"banana"}

SelectOutside(b, o) ==
  /\ app = "q"
  /\ IsStudent(b)
  /\ ss[b].radio.shown
  /\ o \notin Range(ss[b].radio.opts)
  /\ o # ss[b].radio.sel
  /\ LET s == Render([ss[b] EXCEPT !.radio.sel = o]) IN
     /\ ss' = [ss EXCEPT ![b] = s]
     /\ sess' = [sess EXCEPT ![b] = Begin(@, s)]
  /\ UNCHANGED <<app, fvars, rvars, signup, created, users, questions, attempts, nextId, fin, asked, fails, tops>>

InitQ == Init /\ app = "q"

NextAnyChoice ==
  \/ \E cr \in Typed("b1") : Login("b1", cr[1], cr[2])
  \/ Logout("b1")
  \/ \E c \in Courses : SetCourse("b1", c)
  \/ \E o \in {"x", "y", "z"} : Select("b1", o)
  \/ \E o \in Outside : SelectOutside("b1", o)
  \/ \E ok \in BOOLEAN : Submit("b1", ok)

SpecAnyChoice == InitQ /\ [][NextAnyChoice]_vars

\* ------------------------- q.py: one student in two browser sessions (tabs)
\* both browser sessions log in as s1 and take course A
NextTabs ==
  \/ \E b \in Browsers : Login(b, "s1", "p1")
  \/ \E b \in Browsers : SetCourse(b, "a")
  \/ \E b \in Browsers : \E o \in {"x", "y"} : Select(b, o)
  \/ \E b \in Browsers : \E ok \in BOOLEAN : Submit(b, ok)

SpecTabs == InitQ /\ [][NextTabs]_vars

\* ------------------------------ q.py: two students using one browser session
\* s1 and s2 log in, one after the other, in browser session b1
TypedShared == {<<"s1", "p1">>, <<"s2", "p2">>}

NextShared ==
  \/ \E cr \in TypedShared : Login("b1", cr[1], cr[2])
  \/ Logout("b1")
  \/ \E c \in Courses : SetCourse("b1", c)
  \/ \E o \in {"x", "y", "z"} : Select("b1", o)
  \/ \E ok \in BOOLEAN : Submit("b1", ok)

SpecShared == InitQ /\ [][NextShared]_vars

\* ------------------------------------------------- remainder.py on its own
InitRem ==
  /\ app = "remainder"
  /\ FixedInit
  /\ users = InitUsers
  /\ questions = InitQuestions
  /\ attempts = <<>>
  /\ nextId = Len(InitQuestions) + 1
  /\ ss = [b \in Browsers |-> InitSS]
  /\ sess = [b \in Browsers |-> NoSess]
  /\ fin = [b \in Browsers |-> NoFin]
  /\ asked = [b \in Browsers |-> <<>>]
  /\ fails = 0
  /\ tops = 0
  /\ SignupInit
  /\ RemInit
  /\ cal = [b \in Browsers |-> Today]

NextRem ==
  \/ \E b \in Browsers : \E cr \in RTyped(b) : RLogin(b, cr[1], cr[2])
  \/ \E b \in Browsers : RLogout(b)
  \/ \E b \in Browsers : \E d \in RDates : PickDate(b, d)
  \/ \E b \in Browsers : \E rid \in 1..MaxReminders : REdit(b, rid)
  \/ \E b \in Browsers : \E rid \in 1..MaxReminders : RDelete(b, rid)
  \/ \E b \in Browsers : \E title \in Titles : RSave(b, title)

SpecRem == InitRem /\ [][NextRem]_vars

\* ------------------------------------- remainder.py: paging the calendar
\* the sessions start in any month of the year
InitCal ==
  /\ app = "remainder"
  /\ FixedInit
  /\ users = InitUsers
  /\ questions = InitQuestions
  /\ attempts = <<>>
  /\ nextId = Len(InitQuestions) + 1
  /\ ss = [b \in Browsers |-> InitSS]
  /\ sess = [b \in Browsers |-> NoSess]
  /\ fin = [b \in Browsers |-> NoFin]
  /\ asked = [b \in Browsers |-> <<>>]
  /\ fails = 0
  /\ tops = 0
  /\ SignupInit
  /\ RemInit
  /\ \E m \in 1..12 : cal = [b \in Browsers |-> [year |-> Today.year, month |-> m]]

NextCal ==
  \/ \E b \in Browsers : \E cr \in RTyped(b) : RLogin(b, cr[1], cr[2])
  \/ \E b \in Browsers : PrevPressed(b)
  \/ \E b \in Browsers : NextPressed(b)

SpecCal == InitCal /\ [][NextCal]_vars

\* ----------------------------------------- sign-up in q.py and remainder.py
\* Each browser session's script run is a thread of its own, and the database
\* is shared: between the find_one and the insert_one of one create_user call
\* the calls of other sessions may run.

\* the create_user calls still between their find_one and their insert_one
Pending == Cardinality({b \in Browsers : signup[b].pc = "insert"})

\* q.py lines 197-201, 59-62: the Signup button calls create_user, which looks
\* the username up and returns (False, "Username already exists.") on a hit
CreateUserFind(b, username, password, role) ==
  /\ app = "q"
  /\ ss[b].user = NoUser
  /\ signup[b].pc = "idle"
  /\ IF FindUser(username) # <<>>
     THEN signup' = [signup EXCEPT ![b] = [NoCall EXCEPT !.msg = "Username already exists."]]
     ELSE /\ Len(users) + Pending < Len(InitUsers) + MaxSignups
          /\ signup' = [signup EXCEPT ![b] =
                          [pc |-> "insert", username |-> username,
                           password |-> password, role |-> role, msg |-> ""]]
  /\ UNCHANGED <<app, fvars, rvars, created, users, questions, attempts, nextId,
                 ss, sess, fin, asked, fails, tops>>

\* q.py lines 63-69, 200-201: insert_one of the new document (db.users has no
\* unique index), then (True, "User created successfully.") is shown
CreateUserInsert(b) ==
  /\ app = "q"
  /\ signup[b].pc = "insert"
  /\ users' = Append(users, [username |-> signup[b].username,
                             password_hash |-> hash_password(signup[b].password),
                             role |-> signup[b].role])
  /\ signup' = [signup EXCEPT ![b] = [NoCall EXCEPT !.msg = "User created successfully."]]
  /\ created' = [created EXCEPT ![signup[b].username] = @ + 1]
  /\ UNCHANGED <<app, fvars, rvars, questions, attempts, nextId,
                 ss, sess, fin, asked, fails, tops>>

\* remainder.py lines 32, 38-41: the hash check_password_hash accepts
generate_password_hash(password) == <<"hash", password>>

\* remainder.py lines 65-73: create_index of the unique index on username
\* succeeds on a collection whose usernames are distinct
UsernameIndex == \A i, j \in 1..Len(RemUsers) :
                   RemUsers[i].username = RemUsers[j].username => i = j

\* str(res.inserted_id) of the n-th document of the collection
NewUserId(n) == CASE n = 3 -> "u3" [] n = 4 -> "u4" [] n = 5 -> "u5" [] OTHER -> "u6"

RHasUser(username) == \E i \in 1..Len(rusers) : rusers[i].username = username

\* remainder.py lines 196-202, 79-84: the Sign up button; create_user
\* normalises the username and looks it up
RCreateUserFind(b, username, password) ==
  /\ app = "remainder"
  /\ rs[b].user = NoRUser
  /\ signup[b].pc = "idle"
  /\ LET name == NormUser(username) IN
     IF name = "" \/ password = ""
     THEN signup' = [signup EXCEPT ![b] = [NoCall EXCEPT !.msg = "Username and password required"]]
     ELSE IF RHasUser(name)
     THEN signup' = [signup EXCEPT ![b] = [NoCall EXCEPT !.msg = "Username already exists"]]
     ELSE /\ Len(rusers) + Pending < Len(RemUsers) + MaxSignups
          /\ signup' = [signup EXCEPT ![b] =
                          [pc |-> "insert", username |-> name,
                           password |-> password, role |-> "", msg |-> ""]]
  /\ UNCHANGED <<app, fvars, rvars, created, users, questions, attempts, nextId,
                 ss, sess, fin, asked, fails, tops>>

\* remainder.py lines 85-88, 202-206: insert_one; with the unique index a
\* second document of the same username raises DuplicateKeyError, which
\* nothing catches: the run ends with the exception and no success message
RCreateUserInsert(b) ==
  /\ app = "remainder"
  /\ signup[b].pc = "insert"
  /\ IF UsernameIndex /\ RHasUser(signup[b].username)
     THEN /\ signup' = [signup EXCEPT ![b] = [NoCall EXCEPT !.msg = "DuplicateKeyError"]]
          /\ UNCHANGED <<rusers, created>>
     ELSE /\ rusers' = Append(rusers, [id |-> NewUserId(Len(rusers) + 1),
                                       username |-> signup[b].username,
                                       password |-> generate_password_hash(signup[b].password)])
          /\ signup' = [signup EXCEPT ![b] = [NoCall EXCEPT !.msg = "Account created"]]
          /\ created' = [created EXCEPT ![signup[b].username] = @ + 1]
  /\ UNCHANGED <<app, fvars, users, questions, attempts, nextId, ss, sess, fin, asked,
                 fails, tops, reminders, nextRid, rs, cal, ran>>

\* what is typed into the sign-up forms
QSignupTyped == {<<"s1", "pw">>, <<"new", "pw">>, <<"new", "">>}
RSignupTyped == {<<"Ann ", "pw">>, <<"Cat ", "pw">>, <<"cat", "pc">>, <<" ", "pw">>}

InitSignup == InitQ \/ InitRem

NextSignup ==
  \/ \E b \in Browsers : \E cr \in QSignupTyped : \E r \in {"student", "teacher"} :
        CreateUserFind(b, cr[1], cr[2], r)
  \/ \E b \in Browsers : CreateUserInsert(b)
  \/ \E b \in Browsers : \E cr \in RSignupTyped : RCreateUserFind(b, cr[1], cr[2])
  \/ \E b \in Browsers : RCreateUserInsert(b)

SpecSignup == InitSignup /\ [][NextSignup]_vars

\* ================================================================= claims
RECURSIVE SessionSumUpTo(_, _, _)
\* the marks of the first k questions of qs whose answer in ans is the correct one
SessionSumUpTo(qs, ans, k) ==
  IF k = 0 THEN 0
  ELSE SessionSumUpTo(qs, ans, k - 1)
       + (IF k <= Len(ans) /\ ans[k] = qs[k].answer THEN qs[k].marks ELSE 0)

SessionSum(qs, ans) == SessionSumUpTo(qs, ans, Len(qs))

RECURSIVE SumOver(_, _)
SumOver(f, S) ==
  IF S = {} THEN 0 ELSE LET b == CHOOSE x \in S : TRUE IN f[b] + SumOver(f, S \ {b})

Completions == SumOver([b \in Browsers |-> fin[b].count], Browsers)
SavedCompletions == SumOver([b \in Browsers |-> fin[b].saved], Browsers)

\* the run of browser b accepted an answer in this step
Accepted(b) ==
  \/ fin'[b].count = fin[b].count + 1
  \/ /\ sess'[b].active /\ sess[b].active
     /\ Len(sess'[b].given) = Len(sess[b].given) + 1

\* C1 (fixed-list quiz): finished exactly when N answers were accepted since
\* the session state was set or restarted.
C1_FixedCompletesAfterN ==
  app = "quiz_app" =>
    /\ finished <=> Len(given) = Len(QUESTIONS)
    /\ ~finished => current = Len(given)

\* C1: a session over N questions is in progress after fewer than N accepted
\* answers and is completed by the N-th, in both quizzes.
C1_CompletesAfterN ==
  /\ C1_FixedCompletesAfterN
  /\ \A b \in Browsers :
       /\ sess[b].active => Len(sess[b].given) < Len(sess[b].snap)
       /\ fin[b].count > 0 => Len(fin[b].given) = Len(fin[b].snap)

C3_FixedScore == finished => score = SessionSum(QUESTIONS, given)

\* C3: the score of a completed session equals the sum of marks over exactly
\* the session's questions whose submitted answer was the correct one.
C3_ScoreIsSumOfCorrect ==
  /\ C3_FixedScore
  /\ \A b \in Browsers :
       fin[b].count > 0 => fin[b].score = SessionSum(fin[b].snap, fin[b].given)

\* C4: in the database-backed quiz the length of the answer log equals the
\* position index in every reachable state.
C4_LogLengthIsPosition ==
  \A b \in Browsers : ss[b].has_index => Len(ss[b].answers) = ss[b].index

\* C5: once the storage write of the last answer has failed, the session stays
\* completed: no later submission is scored or logged in that session.
C5_NoRescoreAfterFailedWrite ==
  [][\A b \in Browsers : sess[b].failed => ~Accepted(b)]_vars

C7_SnapshotAtStart ==
  [][\A b \in Browsers :
       Accepted(b) =>
         /\ ss[b].index + 1 <= Len(sess[b].snap)
         /\ get_questions(ss[b].course)[ss[b].index + 1] = sess[b].snap[ss[b].index + 1]]_vars

\* C8: the position stays within 0..len(questionSet) and no lookup of the
\* current question is out of range.
C8_PositionInRange ==
  /\ current >= 0 /\ current < Len(QUESTIONS)
  /\ \A b \in Browsers :
       /\ ss[b].out # "IndexError"
       /\ sess[b].active => (ss[b].index >= 0 /\ ss[b].index <= Len(sess[b].snap))

\* C9: a session that has taken no answer yet has position 0, score 0 and an
\* empty answer log, however it began.
C9_FreshSession ==
  /\ given = <<>> => (current = 0 /\ score = 0 /\ ~finished)
  /\ \A b \in Browsers :
       (sess[b].active /\ sess[b].given = <<>>) =>
          /\ ss[b].has_index
          /\ ss[b].index = 0 /\ ss[b].score = 0 /\ ss[b].answers = <<>>

\* C10: on completion the position counter equals the number of questions.
C10_PositionIsNOnCompletion ==
  /\ finished => current = Len(QUESTIONS)
  /\ \A b \in Browsers : fin[b].count > 0 => fin[b].pos = fin[b].n

\* C10 as amended: on completion the position counter is N - 1, the index of
\* the last question: the fixed-list quiz keeps current there, the
\* database-backed quiz completes at index N - 1 of the list it loaded and,
\* once the record is stored, sets index back to 0.
C10_PositionIsLastIndexOnCompletion ==
  /\ finished => current = Len(QUESTIONS) - 1
  /\ \A b \in Browsers :
       /\ fin[b].count > 0 => fin[b].pos = fin[b].n - 1
       /\ ss[b].out = "finished" => ss[b].index = 0

\* C10 witness: a session of two questions has been completed and stored.
C10_Witness ==
  /\ fin["b1"].saved = 1
  /\ fin["b1"].n = 2
  /\ ss["b1"].out = "finished"

\* C11: a run that finds no question for the course typed neither creates nor
\* changes index, score and answers, begins no session and writes no attempt.
C11_NoSessionOnEmptySet ==
  [][\A b \in Browsers :
       (ss'[b] # ss[b] /\ ss'[b].out = "no_questions") =>
          /\ ss'[b].has_index = ss[b].has_index
          /\ ss'[b].index = ss[b].index
          /\ ss'[b].score = ss[b].score
          /\ ss'[b].answers = ss[b].answers
          /\ sess'[b] = sess[b]
          /\ fin'[b] = fin[b]
          /\ attempts' = attempts]_vars

\* C11 witness: the student has typed a course without questions before any
\* session variable was created.
C11_Witness ==
  /\ ss["b1"].out = "no_questions"
  /\ ~ss["b1"].has_index
  /\ attempts = <<>>

\* the answer of a stored question is one of its options
AnswerAmongOptions(d) == d.answer \in Range(d.options)

\* C12: every question in the bank has its correct answer among its options,
\* initially and after every teacher-panel step, so an add or edit whose
\* answer is not an option changes nothing.
C12_AnswerAmongOptions ==
  \A i \in 1..Len(questions) : AnswerAmongOptions(questions[i])

\* C12 witness: the teacher panel has stored the question of a form.
C12_Witness ==
  /\ tops = 1
  /\ \E i \in 1..Len(questions) : questions[i].question = "qb2"

\* C13: no accepted answer makes the running score smaller.
C13_ScoreNeverDecreases ==
  [][\A b \in Browsers :
       Accepted(b) =>
         IF fin'[b].count = fin[b].count + 1
         THEN fin'[b].score >= ss[b].score
         ELSE ss'[b].score >= ss[b].score]_vars

RECURSIVE SumMarksOf(_)
\* the sum of the marks of a set of question documents
SumMarksOf(S) ==
  IF S = {} THEN 0
  ELSE LET d == CHOOSE x \in S : TRUE IN d.marks + SumMarksOf(S \ {d})

\* the questions that the records of an answer log answer
AskedQuestions(a) == {a[i].q : i \in 1..Len(a)}

\* C14: the max_score of every attempt record written is the sum of the marks
\* of the questions whose answers are in its answer log.
C14_MaxScoreIsSumOfAsked ==
  [][\A b \in Browsers :
       fin'[b].saved = fin[b].saved + 1 =>
         attempts'[Len(attempts')].max_score
           = SumMarksOf(AskedQuestions(fin'[b].asked))]_vars

\* the step is the completing submission of browser b
Completing(b) == fin'[b].count = fin[b].count + 1

\* C15: every accepted answer changes the score by the marks of the question
\* it answers when the selected option equals that question's answer, and by
\* 0 otherwise, in both quizzes.
C15_ScoreDelta ==
  [][/\ (Len(given') = Len(given) + 1) =>
          score' - score =
            (IF given'[Len(given')] = QUESTIONS[current + 1].answer
             THEN QUESTIONS[current + 1].marks ELSE 0)
     /\ \A b \in Browsers :
          Accepted(b) =>
            LET log == IF Completing(b) THEN fin'[b].asked ELSE asked'[b]
                sels == IF Completing(b) THEN fin'[b].given ELSE sess'[b].given
                after == IF Completing(b) THEN fin'[b].score ELSE ss'[b].score
                q == log[Len(log)].q
                sel == sels[Len(sels)]
            IN  after - ss[b].score = (IF sel = q.answer THEN q.marks ELSE 0)]_vars

\* C15 witness: a session of two questions has ended with one answer right
\* and one answer wrong.
C15_Witness ==
  /\ fin["b1"].count = 1
  /\ Len(fin["b1"].given) = 2
  /\ fin["b1"].given[1] = fin["b1"].asked[1].q.answer
  /\ fin["b1"].given[2] # fin["b1"].asked[2].q.answer
  /\ fin["b1"].score = fin["b1"].asked[1].q.marks

\* C16: an accepted answer that is none of the question's options is logged as
\* given and as incorrect, adds nothing to the score, ends in no error of the
\* handler and moves the session on as any other answer does (to the next
\* question, or to completion on the last one).
C16_UnknownChoiceRecorded ==
  [][\A b \in Browsers :
       Accepted(b) =>
         LET log == IF Completing(b) THEN fin'[b].asked ELSE asked'[b]
             sels == IF Completing(b) THEN fin'[b].given ELSE sess'[b].given
             after == IF Completing(b) THEN fin'[b].score ELSE ss'[b].score
             stored == Len(attempts') = Len(attempts) + 1
             answers == IF stored THEN attempts'[Len(attempts')].details
                        ELSE ss'[b].answers
             q == log[Len(log)].q
             sel == sels[Len(sels)]
         IN  sel \notin Range(q.options) =>
               /\ Len(answers) = Len(ss[b].answers) + 1
               /\ answers[Len(answers)].selected = sel
               /\ answers[Len(answers)].is_correct = FALSE
               /\ after = ss[b].score
               /\ Completing(b) \/ ss'[b].index = ss[b].index + 1
               /\ Completing(b) <=> ~HasNext(ss[b].index, get_questions(ss[b].course))
               /\ ss'[b].out \in {"question", "finished"} \/ fails' = fails + 1]_vars

\* C16 witness: a session has been stored whose first answer was none of the
\* options and whose second answer was the correct option.
C16_Witness ==
  /\ Len(attempts) = 1
  /\ Len(attempts[1].details) = 2
  /\ attempts[1].details[1].selected \in Outside
  /\ attempts[1].details[1].is_correct = FALSE
  /\ attempts[1].details[2].is_correct = TRUE
  /\ attempts[1].score = 2

RECURSIVE LogScore(_, _)
\* the marks that the first k records of an answer log earn
LogScore(a, k) ==
  IF k = 0 THEN 0
  ELSE LogScore(a, k - 1)
       + (IF a[k].sel = a[k].q.answer THEN a[k].q.marks ELSE 0)

\* C17: two browser sessions of the same student on the same course share
\* nothing. A run of one leaves position, score and answer log of the other as
\* they were; a completion appends one record to db.attempts and leaves the
\* earlier ones alone; that record holds the log and the score of the session
\* that completed, the score being what the session's own answers earn.
C17_TabsIndependent ==
  [][\A b \in Browsers :
       /\ ss'[b] # ss[b] =>
            \A c \in Browsers \ {b} : ss'[c] = ss[c] /\ asked'[c] = asked[c]
       /\ fin'[b].saved = fin[b].saved + 1 =>
            LET doc == attempts'[Len(attempts')]
                n == Len(doc.details)
                own == [i \in 1..n |->
                          [q |-> fin'[b].asked[i].q, sel |-> fin'[b].given[i]]]
            IN  /\ Len(attempts') = Len(attempts) + 1
                /\ \A i \in 1..Len(attempts) : attempts'[i] = attempts[i]
                /\ doc.username = ss[b].user.username
                /\ n = Len(ss[b].answers) + 1
                /\ \A i \in 1..(n - 1) : doc.details[i] = ss[b].answers[i]
                /\ Len(fin'[b].given) = n
                /\ \A i \in 1..n : doc.details[i].selected = fin'[b].given[i]
                /\ doc.score = LogScore(own, n)]_vars

\* C17 witness: both browser sessions of s1 have completed course A, with
\* different answers and different scores.
C17_Witness ==
  /\ Len(attempts) = 2
  /\ fin["b1"].saved = 1 /\ fin["b2"].saved = 1
  /\ attempts[1].username = "s1" /\ attempts[2].username = "s1"
  /\ attempts[1].course_code = attempts[2].course_code
  /\ attempts[1].score = 3 /\ attempts[2].score = 0

\* C18: reminders are scoped to the logged-in user. A reminder that a run
\* changes or removes is owned by the user logged in in the browser session
\* that ran; every reminder a page lists is owned by the user of that page and
\* the list of the run is exactly that user's reminders of the selected date;
\* a date is marked on the calendar exactly when that user has a reminder on it.
C18_RemindersScoped ==
  [][ran' \in Browsers =>
       /\ \A i \in 1..Len(reminders) :
            reminders[i] \notin Range(reminders') =>
               reminders[i].user_id = rs[ran'].user.id
       /\ \A b \in Browsers : \A i \in 1..Len(rs'[b].listed) :
            rs'[b].listed[i].user_id = rs'[b].user.id
       /\ LET s == rs'[ran'] IN
          /\ Range(s.listed) =
               {r \in Range(reminders') :
                  r.user_id = s.user.id /\ r.date = s.selected_date}
          /\ s.marked =
               {d \in RDates : \E r \in Range(reminders') :
                  r.user_id = s.user.id /\ r.date = d}]_vars

\* C18 witness: the reminder of one user is in the collection, a second
\* reminder has been deleted, and the last run was that of another user who
\* looks at the date of the first user's reminder and is shown none.
C18_Witness ==
  /\ Len(reminders) = 1
  /\ nextRid = 3
  /\ reminders[1].user_id = "u1"
  /\ ran = "b2"
  /\ rs["b2"].user.id = "u2"
  /\ rs["b2"].selected_date = reminders[1].date
  /\ rs["b2"].listed = <<>>
  /\ rs["b2"].marked = {}
  /\ rs["b1"].user.id = "u1"
  /\ Len(rs["b1"].listed) = 1

\* an attempt record is written in this step
Stored == Len(attempts') = Len(attempts) + 1

\* C19 (first half): an accepted answer appends exactly one record to the
\* answer log and leaves the earlier records as they were.
C19_AppendOnly ==
  [][\A b \in Browsers :
       Accepted(b) =>
         LET log == IF Stored THEN attempts'[Len(attempts')].details
                    ELSE ss'[b].answers
         IN  /\ Len(log) = Len(ss[b].answers) + 1
             /\ \A i \in 1..Len(ss[b].answers) : log[i] = ss[b].answers[i]]_vars

\* C19: the answer log is append-only and in question order: besides the
\* first half, the i-th answer record of every attempt record written holds
\* the text and the correct answer of the i-th question of the session's
\* question set.
C19_LogInQuestionOrder ==
  [][\A b \in Browsers :
       /\ Accepted(b) =>
            LET log == IF Stored THEN attempts'[Len(attempts')].details
                       ELSE ss'[b].answers
            IN  /\ Len(log) = Len(ss[b].answers) + 1
                /\ \A i \in 1..Len(ss[b].answers) : log[i] = ss[b].answers[i]
       /\ fin'[b].saved = fin[b].saved + 1 =>
            LET d == attempts'[Len(attempts')].details
                qs == fin'[b].snap
            IN  /\ Len(d) = Len(qs)
                /\ \A i \in 1..Len(d) :
                     d[i].question = qs[i].question /\ d[i].correct = qs[i].answer]_vars

\* C20: every answer record of an attempt saved under a username was appended
\* while that user was logged in, and the score saved is what that user's
\* answers earn: nothing of a previous user of the browser session is carried
\* into the attempt.
C20_AttemptOfOneUser ==
  [][\A b \in Browsers :
       fin'[b].saved = fin[b].saved + 1 =>
         LET doc == attempts'[Len(attempts')]
             a == fin'[b].asked
             all == [i \in 1..Len(a) |->
                       [q |-> a[i].q, sel |-> doc.details[i].selected,
                        user |-> a[i].user]]
             own == SelectSeq(all, LAMBDA r : r.user = doc.username)
         IN  /\ Len(doc.details) = Len(a)
             /\ \A i \in 1..Len(a) : a[i].user = doc.username
             /\ doc.score = LogScore(own, Len(own))]_vars
\* C21: usernames are unique in the users collections: after any interleaving
\* of create_user calls there is at most one user document per username and at
\* most one of the calls for a username has reported success.
C21_UsernamesUnique ==
  /\ \A i, j \in 1..Len(users) : users[i].username = users[j].username => i = j
  /\ \A i, j \in 1..Len(rusers) : rusers[i].username = rusers[j].username => i = j
  /\ \A n \in SignupNames : created[n] <= 1

\* C21, remainder.py alone: with the unique index of lines 65-73 in place the
\* usernames of its collection stay distinct and one call per username succeeds
C21_IndexedCollectionUnique ==
  app = "remainder" =>
    /\ \A i, j \in 1..Len(rusers) : rusers[i].username = rusers[j].username => i = j
    /\ \A n \in SignupNames : created[n] <= 1

\* C21: two sign-ups of remainder.py raced for one username and one was refused
C21_IndexRefused ==
  \E b \in Browsers : signup[b].msg = "DuplicateKeyError"

\* C22: in the fixed-list quiz, a run started by Restart quiz, from a quiz in
\* progress at any question or from a finished one, ends with current = 0,
\* score = 0 and finished = False, the first question shown, and no answer
\* of the previous run counted.
C22_RestartResets ==
  (app = "quiz_app" /\ flast.ev = "restart") =>
    /\ current = 0
    /\ score = 0
    /\ finished = FALSE
    /\ given = <<>>
    /\ FShown
    /\ QUESTIONS[current + 1] = QUESTIONS[1]

\* C22: Restart quiz was pressed on the result page of a run that had points
C22_Witness ==
  /\ app = "quiz_app"
  /\ flast.ev = "restart"
  /\ flast.from.finished
  /\ flast.from.score > 0
  /\ score = 0

\* C22: Restart quiz was pressed at the second question with a point scored
C22_WitnessInProgress ==
  /\ app = "quiz_app"
  /\ flast.ev = "restart"
  /\ ~flast.from.finished
  /\ flast.from.current = 1
  /\ flast.from.score > 0
  /\ current = 0

\* C23: in the fixed-list quiz, a run started by Submit answer with no option
\* selected leaves current, score and finished as they were, and counts no
\* answer.
C23_EmptySubmitChangesNothing ==
  (app = "quiz_app" /\ flast.ev = "submit" /\ flast.from.choice = NoChoice) =>
    /\ current = flast.from.current
    /\ score = flast.from.score
    /\ finished = flast.from.finished
    /\ Len(given) = flast.from.n

\* C23: Submit answer was pressed without a selection at the second question,
\* after a point was scored at the first
C23_Witness ==
  /\ app = "quiz_app"
  /\ flast.ev = "submit"
  /\ flast.from.choice = NoChoice
  /\ flast.from.current = 1
  /\ flast.from.score = 1
  /\ current = 1

\* C24: calendar month navigation keeps the month in 1..12 and is a round
\* trip: next_month followed by prev_month, and prev_month followed by
\* next_month, give back the same (year, month), and the year changes, by
\* exactly one, only when wrapping between December and January.
C24_MonthRoundTrip ==
  \A b \in Browsers :
    LET c == cal[b]
        n == next_month(c)
        p == prev_month(c)
    IN /\ c.month \in 1..12
       /\ n.month \in 1..12
       /\ p.month \in 1..12
       /\ prev_month(n) = c
       /\ next_month(p) = c
       /\ n.year = (IF c.month = 12 THEN c.year + 1 ELSE c.year)
       /\ p.year = (IF c.month = 1 THEN c.year - 1 ELSE c.year)
       /\ n.month = (IF c.month = 12 THEN 1 ELSE c.month + 1)
       /\ p.month = (IF c.month = 1 THEN 12 ELSE c.month - 1)

\* C24: one session paged forward over December into the next year, the other
\* back over January into the previous year
C24_Witness ==
  /\ app = "remainder"
  /\ cal["b1"] = [year |-> Today.year + 1, month |-> 1]
  /\ cal["b2"] = [year |-> Today.year - 1, month |-> 12]

====
